---- MODULE Spec2Model ----
(***************************************************************************)
(* RuntimeContainer (src/unnamed/part_000) and lazy (src/unnamed/part_001) *)
(* as a state machine.  The program is synchronous and re-entrant: a       *)
(* provider called by make calls make again.  The call stack is therefore  *)
(* explicit (frames), and one step of the model is one step of the frame   *)
(* on top of it.                                                           *)
(***************************************************************************)
EXTENDS Integers, Sequences, FiniteSets, TLC

\* ------------------------------------------------------------------ bounds
MaxScopes == 3
MaxInst == 3
MaxCalls == 3
MaxTouch == 2
MaxCycleCalls == 2
MaxPoolInst == 4
MaxPoolCalls == 5
MaxScopeInst == 3
MaxScopeCalls == 2
MaxFailCalls == 2
MaxLazies == 4
MaxLazyCalls == 2
MaxDepth == 8
MaxLoopCalls == 2
MaxHintCalls == 2
MaxZeroInst == 4
MaxZeroCalls == 3

\* ------------------------------------------------------------------ values
\* A token is a string, kept as its sequence of characters.
TokA == <<"A">>
TokB == <<"B">>
TokC == <<"C", "@", "1">>
Tokens == {TokA, TokB, TokC}
\* undefined (Map.get of an absent key) or the empty string: both falsy.
NoTok == <<>>

NoHint == "nohint"
\* Class hints: the constructor functions a client may hand over.
Hints == {"H1", "H2"}
NoProvider == "noprovider"

\* The provider functions handed to provide(): dep is the token the provider
\* makes on the container it is given (NoTok: none), act is what it does:
\*   "build"   c => new X(c.make(dep)): stores the result in a new object
\*   "use"     c => { const d = c.make(dep); d.start(); return new X(d); }
\*   "return"  c => c.make(dep)
\*   "throw"   c => { throw new Error("boom"); }
ProviderDef == [f1 |-> [dep |-> NoTok, act |-> "build"],
                f2 |-> [dep |-> NoTok, act |-> "build"],
                gA |-> [dep |-> TokA, act |-> "build"],
                gB |-> [dep |-> TokB, act |-> "build"],
                gC |-> [dep |-> TokC, act |-> "build"],
                uA |-> [dep |-> TokA, act |-> "use"],
                rA |-> [dep |-> TokA, act |-> "return"],
                bad |-> [dep |-> NoTok, act |-> "throw"]]
Providers == DOMAIN ProviderDef

\* BindOptions: undefined, {singleton: ...} or {pool: n}.
NoOptions == [kind |-> "none", n |-> 0]
Singleton == [kind |-> "singleton", n |-> 0]
Pool(n) == [kind |-> "pool", n |-> n]

\* Runtime values: an object built by a provider, a proxy built by lazy().
NoVal == [k |-> "none", id |-> 0]
Inst(i) == [k |-> "inst", id |-> i]
LazyVal(l) == [k |-> "lazy", id |-> l]

ThrowWrapped(m) == [st |-> "throw", v |-> NoVal, msg |-> <<"Error">>]

\* What a call left for its caller: nothing yet, a value, or a thrown Error.
NoRet == [st |-> "none", v |-> NoVal, msg |-> <<>>]
Ok(v) == [st |-> "ok", v |-> v, msg |-> <<>>]
Throw(m) == [st |-> "throw", v |-> NoVal, msg |-> m]

\* The message of the Error a throwing provider throws.
Boom == <<"boom">>

NoCall == [kind |-> "none", s |-> 0, t |-> NoTok, lz |-> 0, mark |-> 0]
NoLast == [kind |-> "none", s |-> 0, t |-> NoTok, lz |-> 0, mark |-> 0, r |-> NoRet]

VARIABLES
  parent,       \* parent[s]: #parent of scope s, 0 for a root
  providers,    \* providers[s][t]: #providers
  hints,        \* hints[s][t]: #hints
  bindings,     \* bindings[s][t]: #bindings
  bindOptions,  \* bindOptions[s][t]: #bindOptions
  makeStack,    \* makeStack[s]: #makeStack
  pool,         \* pool[s][t]: #pool
  insts,        \* the objects providers have built
  lazies,       \* the proxies lazy() has built (the WeakSet lazies)
  stack,        \* the call stack, top last
  ret,          \* the value or error the last popped frame left
  cur,          \* the call the client has in progress; mark: the objects built before it
  last,         \* the last call the client completed, with its outcome
  before,       \* the pools as they were when that call (cur, else last) began
  hist,         \* hist[s][t]: results of the client's make(t) on s since t was last registered in s
  inv,          \* inv[s][t]: provider invocations for container s, token t since t was last registered in s
  clean,        \* clean[s][t]: pool[s][t] was empty when t was last registered in s
  derefs,       \* derefs[s][t]: what operations on proxies for (s, t) were forwarded to since t was last registered in s
  failed,       \* failed[s][t]: a provider invoked for (s, t) threw since t was last registered in s
  invoked       \* invoked[p]: invocations of provider p during the client's current call

vars == <<parent, providers, hints, bindings, bindOptions, makeStack, pool,
          insts, lazies, stack, ret, cur, last, before, hist, inv, clean, failed,
          derefs, invoked>>

registry == <<parent, providers, hints, bindings, bindOptions>>
ghosts == <<hist, inv, clean, failed, derefs>>

Scopes == 1..Len(parent)

\* ----------------------------------------------------------------- helpers
PoolSizeClamped(options) ==
  IF options.kind = "singleton" \/ options.n < 1 THEN 1 ELSE options.n

PoolSizeTwo(options) ==
  IF options.kind = "singleton" THEN 2 ELSE options.n

\* const pool = options == null ? undefined : "singleton" in options ? 1
\*            : "pool" in options ? options.pool : undefined
PoolSize(options) ==
  IF options.kind = "singleton" THEN 1 ELSE options.n

HasPoolOnly(options) ==
  options.kind = "pool" /\ PoolSize(options) > 0

\* pool != null && pool > 0
HasPool(options) ==
  options.kind # "none" /\ PoolSize(options) > 0

NeverLazy(v) == FALSE

\* isLazy(value): lazies.has(value)
isLazy(v) == v.k = "lazy"

IncludesLast(seq, x) == seq # <<>> /\ seq[Len(seq)] = x

\* Array.prototype.includes
Includes(seq, x) == \E i \in 1..Len(seq) : seq[i] = x

RotateNot(instances) == instances

\* instances.pop() then instances.unshift(instance)
Rotate(instances) ==
  <<instances[Len(instances)]>> \o SubSeq(instances, 1, Len(instances) - 1)

UnshiftAsPush(instances, v) == instances \o <<v>>

\* instances.unshift(result)
Unshift(instances, v) == <<v>> \o instances

PopFirst(seq) == IF seq = <<>> THEN seq ELSE Tail(seq)

PopNot(seq) == seq

\* Array.prototype.pop on the make stack
PopLast(seq) == SubSeq(seq, 1, Len(seq) - 1)

WholeToken(t) == t

\* token.split("@").shift()
RECURSIVE BeforeAt(_)
BeforeAt(t) ==
  IF t = <<>> \/ Head(t) = "@" THEN <<>> ELSE <<Head(t)>> \o BeforeAt(Tail(t))

EmptyMap(x) == [t \in Tokens |-> x]

Top == stack[Len(stack)]
Below == SubSeq(stack, 1, Len(stack) - 1)
Idle == stack = <<>> /\ cur.kind = "none"

MakeFrame(s, t, h) ==
  [op |-> "make", pc |-> "entry", s |-> s, t |-> t, c |-> s, h |-> h,
   p |-> NoProvider, cap |-> 0, lz |-> 0]
InnerFrame(s, t, c, h) ==
  [op |-> "inner", pc |-> "entry", s |-> s, t |-> t, c |-> c, h |-> h,
   p |-> NoProvider, cap |-> 0, lz |-> 0]
ProviderFrame(p, c, t, h) ==
  [op |-> "provider", pc |-> "entry", s |-> c, t |-> t, c |-> c, h |-> h,
   p |-> p, cap |-> 0, lz |-> 0]
GetFrame(l) ==
  [op |-> "get", pc |-> "entry", s |-> 0, t |-> NoTok, c |-> 0, h |-> NoHint,
   p |-> NoProvider, cap |-> 0, lz |-> l]

AliasCallInner(s, binding) == InnerFrame(s, binding, s, NoHint)

\* return this.make(binding)
AliasCall(s, binding) == MakeFrame(s, binding, NoHint)

DelegateMake(up, t, c, h) == MakeFrame(up, t, h)

\* return this.#parent.#make(token, container, classHint)
Delegate(up, t, c, h) == InnerFrame(up, t, c, h)

ProvidersGetUp(s, t) ==
  IF parent[s] # 0 /\ providers[parent[s]][t] # NoProvider
  THEN providers[parent[s]][t]
  ELSE providers[s][t]

\* this.#providers.get(token)
ProvidersGet(s, t) == providers[s][t]

FactoryProvider(l) ==
  ProviderFrame(providers[lazies[l].s][lazies[l].t], lazies[l].s, lazies[l].t,
                lazies[l].h)

\* The factory handed to lazy(): () => this.make(token, classHint)
Factory(l) == MakeFrame(lazies[l].s, lazies[l].t, lazies[l].h)

\* Replace the top frame's pc and push a callee.
Call(pc, callee) == Below \o <<[Top EXCEPT !.pc = pc], callee>>

\* --------------------------------------------------------------------- Init
\* Container.create(): new RuntimeContainer() with no parent.
Init ==
  /\ parent = <<0>>
  /\ providers = <<EmptyMap(NoProvider)>>
  /\ hints = <<EmptyMap(NoHint)>>
  /\ bindings = <<EmptyMap(NoTok)>>
  /\ bindOptions = <<EmptyMap(NoOptions)>>
  /\ makeStack = << <<>> >>
  /\ pool = <<EmptyMap(<<>>)>>
  /\ insts = <<>>
  /\ lazies = <<>>
  /\ stack = <<>>
  /\ ret = NoRet
  /\ cur = NoCall
  /\ last = NoLast
  /\ before = pool
  /\ hist = <<EmptyMap(<<>>)>>
  /\ inv = <<EmptyMap(0)>>
  /\ clean = <<EmptyMap(TRUE)>>
  /\ failed = <<EmptyMap(FALSE)>>
  /\ derefs = <<EmptyMap({})>>
  /\ invoked = [p \in Providers |-> 0]

\* ------------------------------------------------------- client operations
ResetToken(f, s, t, x) == [f EXCEPT ![s][t] = x]

\* provide(token, provider, bindOptions?)
Provide(s, t, p, o) ==
  /\ Idle
  /\ providers' = [providers EXCEPT ![s][t] = p]
  /\ bindOptions' = [bindOptions EXCEPT ![s][t] = o]
  /\ hist' = ResetToken(hist, s, t, <<>>)
  /\ inv' = ResetToken(inv, s, t, 0)
  /\ clean' = ResetToken(clean, s, t, pool[s][t] = <<>>)
  /\ failed' = ResetToken(failed, s, t, FALSE)
  /\ derefs' = ResetToken(derefs, s, t, {})
  /\ last' = NoLast
  /\ before' = pool
  /\ UNCHANGED <<parent, hints, bindings, makeStack, pool, insts, lazies,
                 stack, ret, cur, invoked>>

\* bind(bindOptions, abstractToken, concreteToken, concreteClassHint?)
Bind(s, o, a, c, h) ==
  /\ Idle
  /\ bindings' = IF a # c THEN [bindings EXCEPT ![s][a] = c] ELSE bindings
  /\ hints' = IF h # NoHint THEN [hints EXCEPT ![s][c] = h] ELSE hints
  /\ bindOptions' = [bindOptions EXCEPT ![s][a] = o]
  /\ hist' = ResetToken(hist, s, a, <<>>)
  /\ inv' = ResetToken(inv, s, a, 0)
  /\ clean' = ResetToken(clean, s, a, pool[s][a] = <<>>)
  /\ failed' = ResetToken(failed, s, a, FALSE)
  /\ derefs' = ResetToken(derefs, s, a, {})
  /\ last' = [NoLast EXCEPT !.kind = "bind", !.s = s, !.t = a]
  /\ before' = pool
  /\ UNCHANGED <<parent, providers, makeStack, pool, insts, lazies,
                 stack, ret, cur, invoked>>

\* inner(): new RuntimeContainer(this)
Inner(s) ==
  /\ Idle
  /\ Len(parent) < MaxScopes
  /\ parent' = Append(parent, s)
  /\ providers' = Append(providers, EmptyMap(NoProvider))
  /\ hints' = Append(hints, EmptyMap(NoHint))
  /\ bindings' = Append(bindings, EmptyMap(NoTok))
  /\ bindOptions' = Append(bindOptions, EmptyMap(NoOptions))
  /\ makeStack' = Append(makeStack, <<>>)
  /\ pool' = Append(pool, EmptyMap(<<>>))
  /\ hist' = Append(hist, EmptyMap(<<>>))
  /\ inv' = Append(inv, EmptyMap(0))
  /\ clean' = Append(clean, EmptyMap(TRUE))
  /\ failed' = Append(failed, EmptyMap(FALSE))
  /\ derefs' = Append(derefs, EmptyMap({}))
  /\ last' = NoLast
  /\ before' = pool'
  /\ UNCHANGED <<insts, lazies, stack, ret, cur, invoked>>

\* The client calls make(token, classHint?) on scope s.
CallMake(s, t, h) ==
  /\ Idle
  /\ stack' = <<MakeFrame(s, t, h)>>
  /\ cur' = [kind |-> "make", s |-> s, t |-> t, lz |-> 0, mark |-> Len(insts)]
  /\ invoked' = [p \in Providers |-> 0]
  /\ last' = NoLast
  /\ before' = pool
  /\ UNCHANGED <<registry, makeStack, pool, insts, lazies, ret, ghosts>>

\* The client performs an operation (a property read, a call, ...) on the
\* proxy l, which some object holds as its dependency.
Touch(l) ==
  /\ Idle
  /\ l \in 1..Len(lazies)
  /\ \E i \in 1..Len(insts) : insts[i].dep = LazyVal(l)
  /\ lazies[l].calls < MaxTouch
  /\ stack' = <<GetFrame(l)>>
  /\ cur' = [kind |-> "touch", s |-> lazies[l].s, t |-> lazies[l].t, lz |-> l,
             mark |-> Len(insts)]
  /\ invoked' = [p \in Providers |-> 0]
  /\ last' = NoLast
  /\ before' = pool
  /\ UNCHANGED <<registry, makeStack, pool, insts, lazies, ret, ghosts>>

\* The client's call has returned or thrown.
Return ==
  /\ stack = <<>>
  /\ cur.kind # "none"
  /\ last' = [kind |-> cur.kind, s |-> cur.s, t |-> cur.t, lz |-> cur.lz,
              mark |-> cur.mark, r |-> ret]
  /\ hist' = IF cur.kind = "make"
             THEN [hist EXCEPT ![cur.s][cur.t] = Append(@, ret.v)]
             ELSE hist
  /\ derefs' = IF cur.kind = "touch" /\ ret.st = "ok"
               THEN [derefs EXCEPT ![cur.s][cur.t] = @ \cup {ret.v}]
               ELSE derefs
  /\ ret' = NoRet
  /\ cur' = NoCall
  /\ UNCHANGED <<registry, makeStack, pool, insts, lazies, stack, before, inv,
                 clean, failed, invoked>>

\* ------------------------------------------------------------ program steps
\* make(token, classHint?): part_000 lines 58-93
MakeStep ==
  /\ stack # <<>>
  /\ Top.op = "make"
  /\ LET s == Top.s
         t == Top.t
         options == bindOptions[s][t]
         instances == pool[s][t]
     IN IF Top.pc = "entry"
        THEN IF HasPool(options) /\ Len(instances) >= PoolSize(options)
             THEN /\ pool' = [pool EXCEPT ![s][t] = Rotate(instances)]
                  /\ ret' = Ok(instances[Len(instances)])
                  /\ stack' = Below
             ELSE /\ stack' = Below \o
                        <<[Top EXCEPT !.pc = "result",
                                      !.cap = IF HasPool(options)
                                              THEN PoolSize(options) ELSE 0],
                          InnerFrame(s, t, s, Top.h)>>
                  /\ UNCHANGED <<pool, ret>>
        ELSE /\ pool' = IF /\ ret.st = "ok"
                           /\ Top.cap > 0
                           /\ ~isLazy(ret.v)
                           /\ Len(instances) < Top.cap
                        THEN [pool EXCEPT ![s][t] = Unshift(instances, ret.v)]
                        ELSE pool
             /\ stack' = Below
             /\ UNCHANGED ret
  /\ UNCHANGED <<registry, makeStack, insts, lazies, cur, last, before, ghosts,
                 invoked>>

\* #make(token, container, classHint?): part_000 lines 29-54
InnerStep ==
  /\ stack # <<>>
  /\ Top.op = "inner"
  /\ LET s == Top.s
         t == Top.t
         binding == bindings[s][t]
         provider == ProvidersGet(s, t)
     IN CASE Top.pc = "entry" /\ binding # NoTok ->
               /\ stack' = Call("tail", AliasCall(s, binding))
               /\ UNCHANGED <<makeStack, lazies, ret>>
          [] Top.pc = "entry" /\ binding = NoTok /\ Includes(makeStack[s], t) ->
               /\ lazies' = Append(lazies,
                      [s |-> s, t |-> t, h |-> Top.h, initialized |-> FALSE,
                       instance |-> NoVal, calls |-> 0, outs |-> {}])
               /\ ret' = Ok(LazyVal(Len(lazies) + 1))
               /\ stack' = Below
               /\ UNCHANGED makeStack
          [] Top.pc = "entry" /\ binding = NoTok /\ ~Includes(makeStack[s], t) ->
               IF provider # NoProvider
               THEN /\ makeStack' = [makeStack EXCEPT ![s] = Append(@, t)]
                    /\ stack' = Call("finally",
                         ProviderFrame(provider, Top.c, t,
                           IF Top.h # NoHint THEN Top.h ELSE hints[s][t]))
                    /\ UNCHANGED <<lazies, ret>>
               ELSE IF parent[s] # 0
               THEN /\ makeStack' = [makeStack EXCEPT ![s] = Append(@, t)]
                    /\ stack' = Call("finally", Delegate(parent[s], t, Top.c, Top.h))
                    /\ UNCHANGED <<lazies, ret>>
               ELSE /\ ret' = Throw(<<"No provider for ">> \o BeforeAt(t))
                    /\ stack' = Below
                    /\ UNCHANGED <<makeStack, lazies>>
          [] Top.pc = "tail" ->
               /\ stack' = Below
               /\ UNCHANGED <<makeStack, lazies, ret>>
          [] Top.pc = "finally" ->
               /\ makeStack' = [makeStack EXCEPT ![s] = PopLast(@)]
               /\ stack' = Below
               /\ UNCHANGED <<lazies, ret>>
  /\ UNCHANGED <<registry, pool, insts, cur, last, before, ghosts, invoked>>

\* A provider function runs: it throws, or it makes its dependency on the
\* container it was given, operates on it or not, and returns it or a new
\* object holding it.
ProviderStep ==
  /\ stack # <<>>
  /\ Top.op = "provider"
  /\ LET dep == ProviderDef[Top.p].dep
         act == ProviderDef[Top.p].act
         built(v) == [by |-> Top.p, dep |-> v]
         thrown == [failed EXCEPT ![Top.c][Top.t] = TRUE]
     IN CASE Top.pc = "entry" /\ act = "throw" ->
               /\ ret' = Throw(Boom)
               /\ failed' = thrown
               /\ stack' = Below
               /\ UNCHANGED insts
          [] Top.pc = "entry" /\ act # "throw" /\ dep = NoTok ->
               /\ insts' = Append(insts, built(NoVal))
               /\ ret' = Ok(Inst(Len(insts) + 1))
               /\ stack' = Below
               /\ UNCHANGED failed
          [] Top.pc = "entry" /\ act # "throw" /\ dep # NoTok ->
               /\ stack' = Call("built", MakeFrame(Top.c, dep, NoHint))
               /\ UNCHANGED <<insts, ret, failed>>
          [] Top.pc \in {"built", "used"} /\ ret.st = "throw" ->
               /\ failed' = thrown
               /\ stack' = Below
               /\ UNCHANGED <<insts, ret>>
          [] Top.pc = "built" /\ ret.st # "throw" /\ act = "return" ->
               /\ stack' = Below
               /\ UNCHANGED <<insts, ret, failed>>
          [] Top.pc = "built" /\ ret.st # "throw" /\ act = "use" /\ isLazy(ret.v) ->
               /\ stack' = Below \o <<[Top EXCEPT !.pc = "used", !.lz = ret.v.id],
                                       GetFrame(ret.v.id)>>
               /\ UNCHANGED <<insts, ret, failed>>
          [] Top.pc = "built" /\ ret.st # "throw"
               /\ (act = "build" \/ (act = "use" /\ ~isLazy(ret.v))) ->
               /\ insts' = Append(insts, built(ret.v))
               /\ ret' = Ok(Inst(Len(insts) + 1))
               /\ stack' = Below
               /\ UNCHANGED failed
          [] Top.pc = "used" /\ ret.st # "throw" ->
               /\ insts' = Append(insts, built(LazyVal(Top.lz)))
               /\ ret' = Ok(Inst(Len(insts) + 1))
               /\ stack' = Below
               /\ UNCHANGED failed
  /\ invoked' = IF Top.pc = "entry" THEN [invoked EXCEPT ![Top.p] = @ + 1] ELSE invoked
  /\ inv' = IF Top.pc = "entry" THEN [inv EXCEPT ![Top.c][Top.t] = @ + 1] ELSE inv
  /\ UNCHANGED <<registry, makeStack, pool, lazies, cur, last, before, hist, clean,
                 derefs>>

\* lazy's get(), and the forwarding of the operation: part_001 lines 11-16
GetStep ==
  /\ stack # <<>>
  /\ Top.op = "get"
  /\ LET l == Top.lz
     IN CASE Top.pc = "entry" /\ ~lazies[l].initialized ->
               /\ stack' = Call("got", Factory(l))
               /\ lazies' = [lazies EXCEPT ![l].calls = @ + 1]
               /\ UNCHANGED ret
          [] Top.pc = "entry" /\ lazies[l].initialized ->
               /\ stack' = IF isLazy(lazies[l].instance)
                           THEN Below \o <<GetFrame(lazies[l].instance.id)>>
                           ELSE Below
               /\ ret' = Ok(lazies[l].instance)
               /\ UNCHANGED lazies
          [] Top.pc = "got" /\ ret.st = "throw" ->
               /\ stack' = Below
               /\ UNCHANGED <<lazies, ret>>
          [] Top.pc = "got" /\ ret.st # "throw" ->
               /\ lazies' = [lazies EXCEPT ![l].instance = ret.v,
                                           ![l].outs = @ \cup {ret.v}]
               /\ stack' = IF isLazy(ret.v)
                           THEN Below \o <<GetFrame(ret.v.id)>>
                           ELSE Below
               /\ UNCHANGED ret
  /\ UNCHANGED <<registry, makeStack, pool, insts, cur, last, before, ghosts,
                 invoked>>

\* ----------------------------------------------------------- specifications
\* The client's budget: objects built so far, and make(t) calls on s since t
\* was last registered.
Within(s, t, maxInst, maxCalls) ==
  Len(insts) < maxInst /\ Len(hist[s][t]) < maxCalls

\* One scope, one token, two leaf providers: registration, re-registration
\* and the pool.
PoolPolicies == {NoOptions, Singleton, Pool(1), Pool(2), Pool(3)}

NextPool ==
  \/ \E p \in {"f1", "f2"}, o \in PoolPolicies : Provide(1, TokA, p, o)
  \/ Within(1, TokA, MaxPoolInst, MaxPoolCalls) /\ CallMake(1, TokA, NoHint)
  \/ Return
  \/ MakeStep
  \/ InnerStep
  \/ ProviderStep

SpecPool == Init /\ [][NextPool]_vars

\* One scope, two mutually dependent tokens.
CyclePolicies == {NoOptions, Singleton, Pool(2)}
CycleProviders == {<<TokA, "gB">>, <<TokB, "gA">>}

StepCycle == MakeStep \/ InnerStep \/ ProviderStep \/ GetStep \/ Return

NextCycle ==
  \/ \E tp \in CycleProviders, o \in CyclePolicies : Provide(1, tp[1], tp[2], o)
  \/ \E t \in {TokA, TokB} : Within(1, t, MaxInst, MaxCycleCalls) /\ CallMake(1, t, NoHint)
  \/ \E l \in 1..Len(lazies) : Len(insts) < MaxInst /\ Touch(l)
  \/ Return
  \/ MakeStep
  \/ InnerStep
  \/ ProviderStep
  \/ GetStep

SpecCycle == Init /\ [][NextCycle]_vars

\* The program is synchronous: a call that has begun runs on, step after
\* step, until it returns or throws.
SpecCycleFair == SpecCycle /\ WF_vars(StepCycle)

\* One scope, an abstract token bound to a concrete one.
AliasPolicies == {NoOptions, Pool(1), Pool(2)}

NextAlias ==
  \/ \E o \in AliasPolicies : Provide(1, TokC, "f1", o)
  \/ \E o \in {NoOptions, Singleton} : Bind(1, o, TokA, TokC, NoHint)
  \/ \E t \in {TokA, TokC} : Within(1, t, MaxInst, MaxCalls) /\ CallMake(1, t, NoHint)
  \/ Return
  \/ MakeStep
  \/ InnerStep
  \/ ProviderStep

SpecAlias == Init /\ [][NextAlias]_vars

\* No scope has resolved anything yet.
Unused == insts = <<>> /\ \A s \in Scopes, t \in Tokens : hist[s][t] = <<>>

\* A root scope and its children, made by inner(): the root registers
\* providers and may bind A to C, the other scopes may give A a policy of
\* their own; the scopes are set up before they are used.
ScopePolicies == {NoOptions, Singleton}

NextScopes ==
  \/ Unused /\ \E t \in {TokA, TokC}, o \in ScopePolicies : Provide(1, t, "f1", o)
  \/ Unused /\ Bind(1, NoOptions, TokA, TokC, NoHint)
  \/ Unused /\ \E s \in Scopes \ {1} : Bind(s, Singleton, TokA, TokA, NoHint)
  \/ Unused /\ Inner(1)
  \/ /\ Idle
     /\ \E s \in Scopes :
          Within(s, TokA, MaxScopeInst, MaxScopeCalls) /\ CallMake(s, TokA, NoHint)
  \/ Return
  \/ MakeStep
  \/ InnerStep
  \/ ProviderStep

SpecScopes == Init /\ [][NextScopes]_vars

\* The make calls of the client that have returned or thrown, on all scopes,
\* since their tokens were last registered.
Calls == Cardinality({x \in Scopes \X Tokens \X (1..MaxCalls + MaxPoolCalls) :
                        x[3] <= Len(hist[x[1]][x[2]])})

\* A chain of scopes, each the child of the one before; the root provides B,
\* the scopes below it may provide B themselves; all of them make B.
NextOverride ==
  \/ \E o \in ScopePolicies : Unused /\ Provide(1, TokB, "f1", o)
  \/ Unused /\ Inner(Len(parent))
  \/ \E s \in Scopes \ {1}, o \in ScopePolicies : Unused /\ Provide(s, TokB, "f2", o)
  \/ /\ Idle /\ Len(insts) < MaxInst /\ Calls < MaxCalls
     /\ \E s \in Scopes : CallMake(s, TokB, NoHint)
  \/ Return
  \/ MakeStep
  \/ InnerStep
  \/ ProviderStep

SpecOverride == Init /\ [][NextOverride]_vars

\* No scope has resolved anything yet, nor tried to.
Pristine == Unused /\ \A s \in Scopes, t \in Tokens : inv[s][t] = 0

\* A chain of scopes that fail: nothing provides C; before the first make the
\* root may provide B, with a provider that may throw, and A, with a provider
\* that makes B, and may bind A to B or to C; an A bound to B may be bound to
\* C at any time.  The client calls the root and the last scope of the chain.
FailPolicies == {NoOptions, Singleton}

NextFail ==
  \/ \E p \in {"f1", "bad"}, o \in FailPolicies : Pristine /\ Provide(1, TokB, p, o)
  \/ \E o \in FailPolicies : Pristine /\ Provide(1, TokA, "gB", o)
  \/ \E o \in FailPolicies, c \in {TokB, TokC} : Pristine /\ Bind(1, o, TokA, c, NoHint)
  \/ \E o \in FailPolicies : bindings[1][TokA] = TokB /\ Bind(1, o, TokA, TokC, NoHint)
  \/ Pristine /\ Inner(Len(parent))
  \/ /\ Idle /\ Len(insts) < MaxInst /\ Calls < MaxFailCalls
     /\ \E s \in {1, Len(parent)}, t \in {TokA, TokB} : CallMake(s, t, NoHint)
  \/ Return
  \/ MakeStep
  \/ InnerStep
  \/ ProviderStep

SpecFail == Init /\ [][NextFail]_vars

\* One scope where A's provider makes B and B's provider makes A (and stores
\* it, uses it or returns it) or makes C, an alias of A; all registered before
\* the first make.  An operation on a proxy is begun while fewer than
\* MaxLazies proxies exist.
LazyPolicies == {NoOptions, Singleton, Pool(2)}

NextLazy ==
  \/ \E o \in LazyPolicies : Pristine /\ Provide(1, TokA, "gB", o)
  \/ \E p \in {"gA", "uA", "rA", "gC"}, o \in LazyPolicies :
        Pristine /\ Provide(1, TokB, p, o)
  \/ \E o \in LazyPolicies : Pristine /\ Bind(1, o, TokC, TokA, NoHint)
  \/ /\ Idle /\ Len(insts) < MaxInst /\ Calls < MaxLazyCalls
     /\ \E t \in Tokens : CallMake(1, t, NoHint)
  \/ \E l \in 1..Len(lazies) : Len(insts) < MaxInst /\ Touch(l)
  \/ Return
  \/ MakeStep
  \/ InnerStep
  \/ ProviderStep
  \/ Len(lazies) < MaxLazies /\ GetStep

SpecLazy == Init /\ [][NextLazy]_vars

\* A chain of scopes: the root provides B and A, whose provider makes B, and
\* binds C to B; the scopes below it may provide B themselves; no policies;
\* the scopes are set up before they are used, and the client calls the root
\* and the last scope of the chain.
NextShadow ==
  \/ Unused /\ Provide(1, TokB, "f1", NoOptions)
  \/ Unused /\ Provide(1, TokA, "gB", NoOptions)
  \/ Unused /\ Bind(1, NoOptions, TokC, TokB, NoHint)
  \/ Unused /\ Inner(Len(parent))
  \/ \E s \in Scopes \ {1} : Unused /\ Provide(s, TokB, "f2", NoOptions)
  \/ /\ Idle /\ Len(insts) < MaxScopeInst /\ Calls < MaxScopeCalls
     /\ \E s \in {1, Len(parent)}, t \in Tokens : CallMake(s, t, NoHint)
  \/ Return
  \/ MakeStep
  \/ InnerStep
  \/ ProviderStep

SpecShadow == Init /\ [][NextShadow]_vars

\* A chain of scopes, any of which may provide A, whose provider makes B, and
\* B, whose provider makes A; the last scope may give A a singleton policy of
\* its own; the scopes are set up before they are used, and the client makes
\* A on the last scope of the chain.
StepDeep == MakeStep \/ InnerStep \/ ProviderStep \/ Return

NextDeep ==
  \/ \E s \in Scopes : Unused /\ Provide(s, TokA, "gB", NoOptions)
  \/ \E s \in Scopes : Unused /\ Provide(s, TokB, "gA", NoOptions)
  \/ Unused /\ Inner(Len(parent))
  \/ Unused /\ Bind(Len(parent), Singleton, TokA, TokA, NoHint)
  \/ /\ Idle /\ Len(insts) < MaxScopeInst /\ Calls < MaxScopeCalls
     /\ CallMake(Len(parent), TokA, NoHint)
  \/ Return
  \/ MakeStep
  \/ InnerStep
  \/ ProviderStep

SpecDeep == Init /\ [][NextDeep]_vars

\* The program is synchronous: a call that has begun runs on until it ends.
SpecDeepFair == SpecDeep /\ WF_vars(StepDeep)

\* One scope where A may be bound to B and B to A, and B may have a provider,
\* all before the first make.  A call goes on while fewer than MaxDepth
\* activations are on the call stack.
NextLoop ==
  \/ \E o \in ScopePolicies, ab \in {<<TokA, TokB>>, <<TokB, TokA>>} :
        Pristine /\ Bind(1, o, ab[1], ab[2], NoHint)
  \/ Pristine /\ Provide(1, TokB, "f1", NoOptions)
  \/ /\ Idle /\ Len(insts) < MaxInst /\ Calls < MaxLoopCalls
     /\ \E t \in {TokA, TokB} : CallMake(1, t, NoHint)
  \/ Return
  \/ Len(stack) < MaxDepth /\ MakeStep
  \/ Len(stack) < MaxDepth /\ InnerStep
  \/ ProviderStep

SpecLoop == Init /\ [][NextLoop]_vars

\* A chain of scopes where A is provided by the root and perhaps by a
\* descendant, class hints for A are registered in any scope with
\* bind(undefined, A, A, hint), and A is made on the root or on the last
\* scope with or without an explicit hint.
NextHints ==
  \/ Unused /\ Provide(1, TokA, "f1", NoOptions)
  \/ Unused /\ Inner(Len(parent))
  \/ Unused /\ \E s \in Scopes \ {1} : Provide(s, TokA, "f2", NoOptions)
  \/ Unused /\ \E s \in Scopes, h \in Hints :
        Bind(s, NoOptions, TokA, TokA, h)
  \/ /\ Idle /\ Len(insts) < MaxInst /\ Calls < MaxHintCalls
     /\ \E s \in {1, Len(parent)}, h \in {NoHint} \cup Hints :
          CallMake(s, TokA, h)
  \/ Return
  \/ MakeStep
  \/ InnerStep
  \/ ProviderStep

SpecHints == Init /\ [][NextHints]_vars

\* One scope, one token, two leaf providers, registered and re-registered
\* with no policy, with {pool: 0}, {pool: -1} or {pool: 1}.
ZeroPolicies == {NoOptions, Pool(0), Pool(-1), Pool(1)}

NextZero ==
  \/ \E p \in {"f1", "f2"}, o \in ZeroPolicies : Provide(1, TokA, p, o)
  \/ Within(1, TokA, MaxZeroInst, MaxZeroCalls) /\ CallMake(1, TokA, NoHint)
  \/ Return
  \/ MakeStep
  \/ InnerStep
  \/ ProviderStep

SpecZero == Init /\ [][NextZero]_vars

\* ------------------------------------------------------------------ claims
Min(a, b) == IF a < b THEN a ELSE b

\* Token t of scope s is resolved by its own provider: it is registered with
\* one, has no alias, and no provider invoked for it has thrown.
OwnProvider(s, t) ==
  /\ providers[s][t] # NoProvider
  /\ bindings[s][t] = NoTok
  /\ ~failed[s][t]

\* C1 (as claimed): once a provider is registered for T, again or for the
\* first time, every make(T) of the client on that scope returns an object
\* built by the provider now registered, and invokes no other provider.
C1_Overwrite ==
  (/\ last.kind = "make"
   /\ last.r.st = "ok"
   /\ last.r.v.k = "inst"
   /\ OwnProvider(last.s, last.t))
  => /\ insts[last.r.v.id].by = providers[last.s][last.t]
     /\ \A p \in Providers : invoked[p] > 0 => p = providers[last.s][last.t]

\* C6: with provide(T, f, pool=N) on an empty cache, the first N make(T) each
\* invoke f and return a new object; every later call invokes f no more, and
\* the k-th call returns what call ((k-1) mod N)+1 returned.
C6_PoolRotation ==
  \A s \in Scopes, t \in Tokens :
    (/\ bindOptions[s][t].kind = "pool"
     /\ bindOptions[s][t].n >= 1
     /\ clean[s][t]
     /\ OwnProvider(s, t))
    => LET h == hist[s][t]
           N == bindOptions[s][t].n
       IN /\ \A k \in 1..Len(h) :
               IF k <= N
               THEN /\ h[k].k = "inst"
                    /\ insts[h[k].id].by = providers[s][t]
                    /\ \A j \in 1..(k - 1) : h[j] # h[k]
               ELSE h[k] = h[((k - 1) % N) + 1]
          /\ inv[s][t] <= N
          /\ Idle => inv[s][t] = Min(Len(h), N)

\* C6's case: a pool of 2 has answered five calls.
C6_Witness ==
  /\ bindOptions[1][TokA] = Pool(2)
  /\ clean[1][TokA]
  /\ Len(hist[1][TokA]) = 5

\* C7 (as claimed): once N instances are stored, the calls return them most
\* recently produced first: call N+1 returns #N, call N+2 returns #(N-1), ...
C7_ReverseOrder ==
  \A s \in Scopes, t \in Tokens :
    (/\ bindOptions[s][t].kind = "pool"
     /\ bindOptions[s][t].n >= 1
     /\ clean[s][t]
     /\ OwnProvider(s, t))
    => LET h == hist[s][t]
           N == bindOptions[s][t].n
       IN \A k \in (N + 1)..Len(h) : h[k] = h[N - ((k - N - 1) % N)]

\* C7 (amended): once N instances are stored, the calls return them in the
\* order they were produced, the oldest first: call N+1 returns the oldest of
\* the N, and every call returns what the call N before it returned.
C7_ProductionOrder ==
  \A s \in Scopes, t \in Tokens :
    (/\ bindOptions[s][t].kind = "pool"
     /\ bindOptions[s][t].n >= 1
     /\ clean[s][t]
     /\ OwnProvider(s, t))
    => LET h == hist[s][t]
           N == bindOptions[s][t].n
       IN \A k \in (N + 1)..Len(h) :
            /\ h[k] = h[k - N]
            /\ k = N + 1 => \A j \in 1..N : h[k].id <= h[j].id

\* C7's case: a pool of 3 is full and has been asked twice more.
C7_Witness ==
  /\ bindOptions[1][TokA] = Pool(3)
  /\ clean[1][TokA]
  /\ Len(hist[1][TokA]) = 5

\* C2: under provide(T, f, singleton) on an empty cache all make(T) of the
\* client on that scope return the same object, and f is invoked for that
\* scope's T once.
C2_SingletonIdentity ==
  \A s \in Scopes, t \in Tokens :
    (/\ bindOptions[s][t].kind = "singleton"
     /\ clean[s][t]
     /\ OwnProvider(s, t))
    => LET h == hist[s][t]
       IN /\ \A i, j \in 1..Len(h) : h[i] = h[j] /\ h[i].k = "inst"
          /\ inv[s][t] <= 1
          /\ h # <<>> => inv[s][t] = 1

\* C2's case: two make(A) under a singleton policy, and between them a
\* make(B) that built a B.
C2_Witness ==
  /\ bindOptions[1][TokA].kind = "singleton"
  /\ clean[1][TokA]
  /\ OwnProvider(1, TokA)
  /\ Len(hist[1][TokA]) = 2
  /\ \E k \in 1..Len(hist[1][TokB]) :
       hist[1][TokB][k].k = "inst" /\ hist[1][TokB][k].id > hist[1][TokA][1].id
  /\ last.kind = "make" /\ last.t = TokA

\* C3 (as claimed): whatever operations are performed on a proxy, its deferred
\* action has run at most once, and all of them were forwarded to one object.
C3_RealizesOnce ==
  \A l \in 1..Len(lazies) :
    /\ lazies[l].calls <= 1
    /\ Cardinality(lazies[l].outs) <= 1

\* A<->B: A's provider makes B, B's provider makes A, neither token is aliased.
CycleAB(s) ==
  /\ providers[s][TokA] = "gB" /\ bindings[s][TokA] = NoTok
  /\ providers[s][TokB] = "gA" /\ bindings[s][TokB] = NoTok

\* The running call is a make nested in the client's call, for a token that is
\* under construction, and it has its result.
NestedResult(s, t) ==
  /\ Len(stack) > 1
  /\ Top.op = "make" /\ Top.pc = "result" /\ Top.s = s /\ Top.t = t
  /\ Includes(makeStack[s], t)

\* C4: in an A<->B cycle, under every pair of policies, the client's make(A)
\* invokes each provider at most once, the nested make(A) returns a proxy,
\* and the call ends.
C4_CycleTermination ==
  /\ [](\A s \in Scopes :
          (CycleAB(s) /\ cur.kind = "make" /\ cur.s = s /\ cur.t = TokA)
          => /\ \A p \in Providers : invoked[p] <= 1
             /\ NestedResult(s, TokA) => ret.st = "ok" /\ isLazy(ret.v))
  /\ (cur.kind = "make" /\ cur.t = TokA /\ CycleAB(cur.s))
     ~> (cur.kind = "none" /\ last.kind = "make" /\ last.r.st = "ok")

\* C4's case: the nested make(A) has returned while A is a singleton and B
\* has a pool of 2.
C4_Witness ==
  /\ CycleAB(1)
  /\ cur.kind = "make" /\ cur.t = TokA
  /\ NestedResult(1, TokA)
  /\ bindOptions[1][TokA] = Singleton
  /\ bindOptions[1][TokB] = Pool(2)
  /\ invoked["gA"] = 1 /\ invoked["gB"] = 1

\* C5: while A is a singleton (registered on an empty cache), every operation
\* on a proxy for A is forwarded to the one object that every make(A) of the
\* client returned and returns.
C5_PlaceholderEquivalence ==
  \A s \in Scopes :
    (/\ CycleAB(s)
     /\ bindOptions[s][TokA].kind = "singleton"
     /\ clean[s][TokA]
     /\ ~failed[s][TokA])
    => /\ Cardinality(derefs[s][TokA]) <= 1
       /\ \A v \in derefs[s][TokA] :
            /\ v.k = "inst"
            /\ \A k \in 1..Len(hist[s][TokA]) : hist[s][TokA][k] = v

\* C5's case: the proxy B holds was used twice, and make(A) was called before
\* and after.
C5_Witness ==
  /\ CycleAB(1)
  /\ bindOptions[1][TokA].kind = "singleton"
  /\ clean[1][TokA]
  /\ derefs[1][TokA] # {}
  /\ \E l \in 1..Len(lazies) : lazies[l].t = TokA /\ lazies[l].calls = 2
  /\ Len(hist[1][TokA]) >= 2
  /\ last.kind = "make" /\ last.t = TokA

Range(seq) == {seq[i] : i \in 1..Len(seq)}

\* A is bound to C and has no policy of its own; C has a pool and a provider.
AliasSetup(s) ==
  /\ bindings[s][TokA] = TokC
  /\ bindOptions[s][TokA] = NoOptions
  /\ bindOptions[s][TokC].kind = "pool"
  /\ bindOptions[s][TokC].n >= 1
  /\ OwnProvider(s, TokC)

\* The client's make(t) on s has returned a value.
Made(s, t) ==
  last.kind = "make" /\ last.s = s /\ last.t = t /\ last.r.st = "ok"

\* An object built during the client's last call.
Fresh(v) == v.k = "inst" /\ v.id > last.mark

\* C8 (as claimed): with A bound to C and only C pooled, every make(A) returns
\* a fresh object, while make(C) returns a stored one once N are stored.
C8_AliasAlwaysFresh ==
  \A s \in Scopes :
    AliasSetup(s)
    => /\ Made(s, TokA) => Fresh(last.r.v)
       /\ (Made(s, TokC) /\ Len(before[s][TokC]) >= bindOptions[s][TokC].n)
          => last.r.v \in Range(before[s][TokC])

\* C8 (amended): with A bound to C and only C pooled, make(A) is make(C): it
\* returns a fresh object, which is stored for C, while fewer than N are stored
\* for C, and the stored object whose turn it is once N are stored; nothing is
\* stored for A.
C8_AliasUsesTargetCache ==
  \A s \in Scopes, t \in {TokA, TokC} :
    (AliasSetup(s) /\ Made(s, t))
    => LET was == before[s][TokC]
       IN /\ IF Len(was) >= bindOptions[s][TokC].n
             THEN /\ last.r.v = was[Len(was)]
                  /\ ~Fresh(last.r.v)
                  /\ pool[s][TokC] = Rotate(was)
             ELSE /\ Fresh(last.r.v)
                  /\ pool[s][TokC] = <<last.r.v>> \o was
          /\ pool[s][TokA] = before[s][TokA]

\* C8's case: make(A) has returned an object that C's pool of 2 stored before.
C8_Witness ==
  /\ AliasSetup(1)
  /\ bindOptions[1][TokC] = Pool(2)
  /\ Made(1, TokA)
  /\ ~Fresh(last.r.v)
  /\ last.r.v \in Range(before[1][TokC])

RECURSIVE Ancestors(_)
Ancestors(s) ==
  IF parent[s] = 0 THEN {} ELSE {parent[s]} \cup Ancestors(parent[s])

\* C9 (as claimed): a make of the client on scope S reads and inserts into
\* the cache of S only: the caches of the other scopes stay as they were, and
\* what it returns was in no ancestor's cache.
C9_CacheLocality ==
  LET S == IF cur.kind # "none" THEN cur.s ELSE last.s
  IN (cur.kind = "make" \/ last.kind = "make")
     => /\ \A s \in Scopes \ {S} : pool[s] = before[s]
        /\ last.r.st = "ok"
           => \A a \in Ancestors(S), t \in Tokens : last.r.v \notin Range(before[a][t])

\* Token t is a singleton of scope p, registered with a provider on an empty
\* cache, and the children c1 and c2 of p leave its resolution to p.
Siblings(p, c1, c2, t) ==
  /\ c1 # c2 /\ parent[c1] = p /\ parent[c2] = p
  /\ bindOptions[p][t].kind = "singleton"
  /\ clean[p][t]
  /\ OwnProvider(p, t)
  /\ \A c \in {c1, c2} : providers[c][t] = NoProvider /\ bindings[c][t] = NoTok

\* The make(t) of the client on each of the three scopes returned one object
\* per scope, and the three are different.
OwnSingletons(p, c1, c2, t) ==
  /\ \A s \in {p, c1, c2} : \A i, j \in 1..Len(hist[s][t]) : hist[s][t][i] = hist[s][t][j]
  /\ Range(hist[c1][t]) \cap Range(hist[c2][t]) = {}
  /\ Range(hist[p][t]) \cap (Range(hist[c1][t]) \cup Range(hist[c2][t])) = {}

\* C10 (as claimed): with provide(T, f, singleton) on the parent alone, each
\* of two children has a singleton of its own.
C10_SiblingSingletons ==
  \A p \in Scopes, c1 \in Scopes, c2 \in Scopes, t \in Tokens :
    Siblings(p, c1, c2, t) => OwnSingletons(p, c1, c2, t)

\* C10 (amended): with provide(T, f, singleton) on the parent, each of two
\* children that registered a singleton policy of its own for T has a
\* singleton of its own.
C10_SiblingOwnSingletons ==
  \A p \in Scopes, t \in Tokens :
    bindOptions[p][t].kind = "singleton"
    => \A c1 \in Scopes, c2 \in Scopes :
         (/\ Siblings(p, c1, c2, t)
          /\ bindOptions[c1][t].kind = "singleton"
          /\ bindOptions[c2][t].kind = "singleton")
         => OwnSingletons(p, c1, c2, t)

\* C10's case: both children have made A twice and the parent once.
C10_Witness ==
  /\ Len(parent) = 3
  /\ Siblings(1, 2, 3, TokA)
  /\ bindOptions[2][TokA].kind = "singleton"
  /\ bindOptions[3][TokA].kind = "singleton"
  /\ Len(hist[2][TokA]) = 2
  /\ Len(hist[3][TokA]) = 2
  /\ Len(hist[1][TokA]) >= 1

\* Scope c, a child of p, and p each have a provider of their own for t, both
\* registered on an empty cache, and neither has an alias for t.
Overrides(p, c, t) ==
  /\ parent[c] = p
  /\ OwnProvider(p, t) /\ clean[p][t]
  /\ OwnProvider(c, t) /\ clean[c][t]

\* The client's make(t) on s, in progress or returned, has invoked no other
\* provider than the one s itself registered for t, and what it returned
\* is an object that provider built.
OnlyOwn(s, t) ==
  /\ (cur.kind = "make" /\ cur.s = s /\ cur.t = t)
     => \A q \in Providers : invoked[q] > 0 => q = providers[s][t]
  /\ Made(s, t)
     => /\ last.r.v.k = "inst"
        /\ insts[last.r.v.id].by = providers[s][t]
        /\ \A q \in Providers : invoked[q] > 0 => q = providers[s][t]

\* C11: when a parent has provide(T, fParent) and its child provide(T, fChild),
\* make(T) on the child returns fChild's result and never invokes fParent,
\* and make(T) on the parent returns fParent's result and never invokes
\* fChild, in any order of calls.
C11_ScopedOverride ==
  \A p \in Scopes, c \in Scopes, t \in Tokens :
    Overrides(p, c, t) => OnlyOwn(c, t) /\ OnlyOwn(p, t)

\* C11's case: the child has made B after the parent did, and the parent
\* again after the child.
C11_Witness ==
  /\ Len(parent) >= 2
  /\ Overrides(1, 2, TokB)
  /\ providers[1][TokB] = "f1" /\ providers[2][TokB] = "f2"
  /\ Len(hist[2][TokB]) >= 1
  /\ Len(hist[1][TokB]) = 2
  /\ hist[1][TokB][1].id < hist[2][TokB][1].id
  /\ Made(1, TokB)

\* The longest chain of aliases and parents a resolution can follow without
\* meeting a scope and token twice.
Fuel == Len(parent) * Cardinality(Tokens)

NoTarget == [tok |-> NoTok, found |-> FALSE]

\* The token the resolution of t started on s ends with, following the alias
\* of each scope it passes (lines 30-33) and walking up while no provider is
\* found (lines 41-46), and whether a provider was found for it.
RECURSIVE Target(_, _, _)
Target(s, t, n) ==
  IF n = 0 THEN NoTarget
  ELSE IF bindings[s][t] # NoTok THEN Target(s, bindings[s][t], n - 1)
  ELSE IF providers[s][t] # NoProvider THEN [tok |-> t, found |-> TRUE]
  ELSE IF parent[s] # 0 THEN Target(parent[s], t, n - 1)
  ELSE [tok |-> t, found |-> FALSE]

\* When the client's call began, the cache of s for t held as many objects as
\* the policy of s for t allows.
WasFull(s, t) ==
  /\ HasPool(bindOptions[s][t])
  /\ Len(before[s][t]) >= PoolSize(bindOptions[s][t])

\* A make(t) on s is answered by a cache: that of s for t, or that of a scope
\* where an alias is followed, for the alias's target.
RECURSIVE Cached(_, _, _)
Cached(s, t, n) ==
  IF n = 0 THEN FALSE
  ELSE IF bindings[s][t] # NoTok
       THEN WasFull(s, bindings[s][t]) \/ Cached(s, bindings[s][t], n - 1)
  ELSE IF providers[s][t] = NoProvider /\ parent[s] # 0
       THEN Cached(parent[s], t, n - 1)
  ELSE FALSE

\* After following aliases from t on s, neither s nor any ancestor of s has a
\* provider for the resulting token.
Unprovided(s, t) ==
  LET r == Target(s, t, Fuel)
  IN /\ r.tok # NoTok
     /\ ~r.found
     /\ \A a \in {s} \cup Ancestors(s) : providers[a][r.tok] = NoProvider

\* Token t with everything from its first '@' onward removed.
Displayed(t) ==
  LET ats == {i \in 1..Len(t) : t[i] = "@"}
      first == IF ats = {} THEN Len(t) + 1
               ELSE CHOOSE i \in ats : \A j \in ats : i <= j
  IN SubSeq(t, 1, first - 1)

\* The client's last make failed with the missing-provider error for the
\* token t ends with, and invoked no provider.
MissingProvider(s, t) ==
  /\ last.r.st = "throw"
  /\ last.r.msg = <<"No provider for ">> \o Displayed(Target(s, t, Fuel).tok)
  /\ \A q \in Providers : invoked[q] = 0

\* C12 (as claimed): make(T) fails whenever, after following aliases, neither
\* the scope nor any ancestor has a provider for the resulting token; the
\* message names that token up to its first '@'; no provider is invoked.
C12_MissingProvider ==
  (last.kind = "make" /\ Unprovided(last.s, last.t))
  => MissingProvider(last.s, last.t)

\* C12 (amended): the same, for a make(T) that no cache answers: neither the
\* cache of T nor that of an alias target followed was full when it began.
C12_MissingProviderUncached ==
  (/\ last.kind = "make"
   /\ Unprovided(last.s, last.t)
   /\ ~WasFull(last.s, last.t)
   /\ ~Cached(last.s, last.t, Fuel))
  => MissingProvider(last.s, last.t)

\* C12's case: a make(A) on a scope below the root has failed for C, which
\* the root's alias of A leads to, under the name "C".
C12_Witness ==
  /\ last.kind = "make" /\ last.s > 1 /\ last.t = TokA
  /\ bindings[1][TokA] = TokC
  /\ Unprovided(last.s, TokA)
  /\ ~WasFull(last.s, TokA) /\ ~Cached(last.s, TokA, Fuel)
  /\ last.r = Throw(<<"No provider for ", "C">>)

\* The client's make before its last one on the same scope and token failed.
FailedBefore ==
  LET h == hist[last.s][last.t]
  IN Len(h) >= 2 /\ h[Len(h) - 1] = NoVal

\* C13: whenever a make of the client has returned or failed, the resolution
\* stack of every scope is empty again; so a make(T) issued after a failed
\* make(T), for a T with a provider of its own that no cache answers, invokes
\* that provider and does not return a placeholder.
C13_StackUnwinding ==
  /\ stack = <<>> => \A s \in Scopes : makeStack[s] = <<>>
  /\ (/\ last.kind = "make"
      /\ FailedBefore
      /\ providers[last.s][last.t] # NoProvider
      /\ bindings[last.s][last.t] = NoTok
      /\ ~WasFull(last.s, last.t))
     => /\ invoked[providers[last.s][last.t]] >= 1
        /\ ~isLazy(last.r.v)

\* C13's case: a make(A) on a scope below the root, delegated to the root,
\* has failed in the provider of B, two calls deep, for the second time.
C13_Witness ==
  /\ stack = <<>>
  /\ last.kind = "make" /\ last.s > 1 /\ last.t = TokA
  /\ FailedBefore
  /\ last.r = Throw(Boom)
  /\ providers[1][TokA] = "gB" /\ bindings[1][TokA] = NoTok
  /\ invoked["gB"] = 1 /\ invoked["bad"] = 1

\* C15: when a provider throws during a make of the client, the call ends
\* with that error, the provider was invoked once, and the caches are as they
\* were when the call began: nothing was inserted for the token that failed
\* nor for a token whose resolution enclosed it.
C15_FailurePropagation ==
  /\ cur.kind = "make" => invoked["bad"] <= 1
  /\ (last.kind = "make" /\ invoked["bad"] >= 1)
     => /\ last.r.st = "throw"
        /\ last.r.msg = <<"boom">>
        /\ invoked["bad"] = 1
        /\ pool = before

\* C15's case: make(A) under a singleton policy has failed in the provider of
\* B, a singleton too, which A's provider makes.
C15_Witness ==
  /\ last.kind = "make" /\ last.t = TokA
  /\ last.r = Throw(Boom)
  /\ bindOptions[last.s][TokA] = Singleton /\ bindings[1][TokA] = NoTok
  /\ bindOptions[last.s][TokB] = Singleton
  /\ invoked["gB"] = 1 /\ invoked["bad"] = 1

\* C14: in every reachable state no instance cache of any scope contains a
\* proxy, also when a make on a token with a policy hits a cycle, resolves
\* through an alias whose target is in flight, or has a provider that returns
\* a proxy it got from a nested make.
C14_NoPlaceholderInCache ==
  \A s \in Scopes, t \in Tokens :
    \A i \in 1..Len(pool[s][t]) :
      pool[s][t][i].k = "inst" /\ pool[s][t][i].id \in 1..Len(insts)

\* A make(t) under a policy whose cache is not full is about to return a
\* proxy: its token is in flight, or it is an alias of a token in flight, or
\* its provider returned the proxy.
LazyResult(t, p) ==
  /\ stack # <<>>
  /\ Top.op = "make" /\ Top.pc = "result" /\ Top.t = t
  /\ Top.cap > Len(pool[Top.s][t])
  /\ ret.st = "ok" /\ ret.v.k = "lazy"
  /\ providers[1][TokB] = p

\* C14's case: make(C) under a policy, C an alias of A, is about to return
\* the proxy it got for A, which is in flight.
C14_Witness ==
  /\ LazyResult(TokC, "gC")
  /\ bindings[1][TokC] = TokA
  /\ Includes(makeStack[1], TokA)

\* Frame i of the call stack is the get() of a proxy for a token that was on
\* the resolution stack of the proxy's scope when the get() began: a #make
\* below frame i has pushed it and not yet popped it.
Reentered(i) ==
  /\ stack[i].op = "get"
  /\ \E k \in 1..(i - 1) :
       /\ stack[k].op = "inner" /\ stack[k].pc = "finally"
       /\ stack[k].s = lazies[stack[i].lz].s
       /\ stack[k].t = lazies[stack[i].lz].t

\* C20: when the deferred action of a proxy for T is triggered while T is
\* still on the resolution stack, the re-entered make(T) invokes no provider
\* and raises no error, and yields another proxy for T.
C20_UnbreakableCycle ==
  \A i \in 1..Len(stack) :
    Reentered(i)
    => /\ \A j \in (i + 1)..Len(stack) : stack[j].op # "provider"
       /\ (i = Len(stack) /\ stack[i].pc = "got")
          => /\ ret.st = "ok"
             /\ ret.v.k = "lazy"
             /\ ret.v.id # stack[i].lz
             /\ lazies[ret.v.id].t = lazies[stack[i].lz].t
             /\ lazies[ret.v.id].s = lazies[stack[i].lz].s

\* C20's case: B's provider has operated on the proxy it got for A, under a
\* singleton policy for A, and the re-entered make(A) has returned.
C20_Witness ==
  /\ Len(stack) > 1
  /\ stack[Len(stack) - 1].op = "provider"
  /\ Reentered(Len(stack))
  /\ Top.pc = "got"
  /\ lazies[Top.lz].t = TokA
  /\ providers[1][TokB] = "uA"
  /\ bindOptions[1][TokA] = Singleton

\* The step belongs to an operation of the client on scope c: a make on c
\* that begins, runs or returns, a provide or bind that changes what c has
\* registered, or an inner() that makes a child of c.
ActsOn(c) ==
  \/ cur.kind = "make" /\ cur.s = c
  \/ cur'.kind = "make" /\ cur'.s = c
  \/ /\ Idle /\ Idle'
     /\ \/ <<providers'[c], hints'[c], bindings'[c], bindOptions'[c]>>
           # <<providers[c], hints[c], bindings[c], bindOptions[c]>>
        \/ Len(parent') > Len(parent) /\ parent'[Len(parent')] = c

\* The step leaves the providers, aliases, class hints, cache policies and
\* instance cache of scope a as they are.
Untouched(a) ==
  /\ providers'[a] = providers[a]
  /\ hints'[a] = hints[a]
  /\ bindings'[a] = bindings[a]
  /\ bindOptions'[a] = bindOptions[a]
  /\ pool'[a] = pool[a]

\* C16 (as claimed): no step of a provide, bind, inner or make performed on a
\* scope changes the providers, aliases, class hints, cache policies or
\* instance cache of any of its ancestors.
C16_ChildNeverMutatesParent ==
  [][\A c \in Scopes : ActsOn(c) => \A a \in Ancestors(c) : Untouched(a)]_vars

\* C17 (as claimed): during a make of the client on a scope that has a
\* provider of its own for Y, every provider that runs for Y is that one,
\* whether Y is requested directly, by a provider an ancestor owns, or as the
\* target of an alias an ancestor registered; the same on the parent.
C17_Shadowing ==
  \A y \in Tokens :
    (/\ cur.kind = "make"
     /\ providers[cur.s][y] # NoProvider
     /\ bindings[cur.s][y] = NoTok)
    => \A j \in 1..Len(stack) :
         (stack[j].op = "provider" /\ stack[j].t = y)
         => stack[j].p = providers[cur.s][y]

\* A has a cache policy of its own in s and is bound to C, which has a
\* provider in s.
PolicyAndAlias(s) ==
  /\ HasPool(bindOptions[s][TokA])
  /\ bindings[s][TokA] = TokC
  /\ OwnProvider(s, TokC)

\* C18: when A has both a policy and an alias target C in s, make(A) returns
\* A's cached object, in A's turn order, once A's cache holds its capacity,
\* and then neither reads nor changes C's cache and invokes no provider;
\* while A's cache is not full it returns what make(C) yields under C's own
\* policy (C's cached object once C's cache is full, a new object otherwise,
\* stored for C if C has a policy), and that object is inserted in A's cache.
C18_OwnPolicyBeforeAlias ==
  \A s \in Scopes :
    (PolicyAndAlias(s) /\ Made(s, TokA))
    => LET wasA == before[s][TokA]
           wasC == before[s][TokC]
           v == last.r.v
       IN IF WasFull(s, TokA)
          THEN /\ v = wasA[Len(wasA)]
               /\ pool[s][TokA] = <<v>> \o SubSeq(wasA, 1, Len(wasA) - 1)
               /\ pool[s][TokC] = wasC
               /\ \A q \in Providers : invoked[q] = 0
          ELSE /\ pool[s][TokA] = <<v>> \o wasA
               /\ IF WasFull(s, TokC)
                  THEN /\ v = wasC[Len(wasC)]
                       /\ pool[s][TokC] = <<v>> \o SubSeq(wasC, 1, Len(wasC) - 1)
                       /\ \A q \in Providers : invoked[q] = 0
                  ELSE /\ Fresh(v)
                       /\ invoked[providers[s][TokC]] = 1
                       /\ pool[s][TokC] = IF HasPool(bindOptions[s][TokC])
                                          THEN <<v>> \o wasC ELSE wasC

\* C18's case: make(A) has returned A's cached object while C's full cache
\* would have answered with another.
C18_Witness ==
  /\ PolicyAndAlias(1)
  /\ Made(1, TokA)
  /\ WasFull(1, TokA)
  /\ WasFull(1, TokC)
  /\ before[1][TokC][Len(before[1][TokC])] # last.r.v

\* The scope that owns the provider a resolution of t started on s reaches:
\* s or the nearest ancestor of s with a provider for t (0: none).
RECURSIVE Owner(_, _)
Owner(s, t) ==
  IF s = 0 THEN 0
  ELSE IF providers[s][t] # NoProvider THEN s
  ELSE Owner(parent[s], t)

\* Seen from s, A and B depend on each other: the provider that s reaches
\* for A makes B, the one it reaches for B makes A, both are owned by proper
\* ancestors of s, and no scope from s up binds A or B to another token.
CycleAbove(s) ==
  /\ Owner(s, TokA) \in Ancestors(s)
  /\ Owner(s, TokB) \in Ancestors(s)
  /\ providers[Owner(s, TokA)][TokA] = "gB"
  /\ providers[Owner(s, TokB)][TokB] = "gA"
  /\ \A a \in {s} \cup Ancestors(s) :
       bindings[a][TokA] = NoTok /\ bindings[a][TokB] = NoTok

\* C19: when the providers of mutually dependent A and B are owned by
\* ancestors of the scope make(A) is called on, each provider is invoked at
\* most once, the nested make(A) on that scope is answered with a proxy, and
\* the call ends, whichever ancestors own the providers.
C19_CyclesAcrossScopes ==
  /\ []((cur.kind = "make" /\ cur.t = TokA /\ CycleAbove(cur.s))
        => /\ \A p \in Providers : invoked[p] <= 1
           /\ NestedResult(cur.s, TokA) => ret.st = "ok" /\ ret.v.k = "lazy")
  /\ (cur.kind = "make" /\ cur.t = TokA /\ CycleAbove(cur.s))
     ~> (cur.kind = "none" /\ last.kind = "make" /\ last.r.st = "ok")

\* C19's case: make(A) on a scope two levels below the root, where the root
\* owns B's provider and the scope between owns A's; the nested make(A) has
\* returned.
C19_Witness ==
  /\ Len(parent) = 3
  /\ cur.kind = "make" /\ cur.s = 3 /\ cur.t = TokA
  /\ CycleAbove(3)
  /\ Owner(3, TokA) = 2 /\ Owner(3, TokB) = 1
  /\ NestedResult(3, TokA)
  /\ invoked["gA"] = 1 /\ invoked["gB"] = 1

\* A is bound to B and B to A in s, and the cache of s holds nothing for
\* either.
AliasCycle(s) ==
  /\ bindings[s][TokA] = TokB
  /\ bindings[s][TokB] = TokA
  /\ pool[s][TokA] = <<>> /\ pool[s][TokB] = <<>>

\* The token of the k-th activation of a make(t) that alternates between A
\* and B: one make and one #make for t, then one of each for the other, ...
Alternating(t, k) ==
  IF ((k - 1) \div 2) % 2 = 0 THEN t ELSE IF t = TokA THEN TokB ELSE TokA

\* C21: with bind(A -> B) and bind(B -> A) in one scope and nothing cached
\* for either, a make of A or B has not returned and has not failed, however
\* deep it has gone: its activations are make and #make in turn, for A and B
\* in turn, each waiting for the next, and none has left a result or an error.
C21_AliasCycleRuns ==
  (cur.kind = "make" /\ cur.t \in {TokA, TokB} /\ AliasCycle(cur.s))
  => /\ stack # <<>>
     /\ ret.st = "none"
     /\ \A q \in Providers : invoked[q] = 0
     /\ \A k \in 1..Len(stack) :
          /\ stack[k].op = (IF k % 2 = 1 THEN "make" ELSE "inner")
          /\ stack[k].s = cur.s
          /\ stack[k].t = Alternating(cur.t, k)
          /\ k < Len(stack) => stack[k].pc = (IF k % 2 = 1 THEN "result" ELSE "tail")

\* C21's case: make(A) is MaxDepth activations deep in the alias cycle, a
\* provider for B being registered.
C21_Witness ==
  /\ cur.kind = "make" /\ cur.t = TokA
  /\ AliasCycle(1)
  /\ providers[1][TokB] = "f1"
  /\ Len(stack) = MaxDepth

\* What bind(o, a, c, h) on s may change: the alias of a when a # c, the
\* class hint of c when a hint is given, the cache policy of a when a policy
\* is given; providers and instance caches stay as they are.
BindFrame(s, o, a, c, h) ==
  /\ bindings' = IF a # c THEN [bindings EXCEPT ![s][a] = c] ELSE bindings
  /\ hints' = IF h # NoHint THEN [hints EXCEPT ![s][c] = h] ELSE hints
  /\ bindOptions' = IF o # NoOptions THEN [bindOptions EXCEPT ![s][a] = o]
                     ELSE bindOptions
  /\ providers' = providers
  /\ pool' = pool

\* C22: every bind changes only the alias of A (when A # C), the class hint
\* of C (when a hint is given) and the cache policy of A (when a policy is
\* given); a bind without a policy leaves the policy registered for A, and
\* all providers and instance caches, unchanged.
C22_BindFrame ==
  [][\A s \in Scopes, o \in {NoOptions, Singleton, Pool(1), Pool(2)},
        a \in Tokens, c \in Tokens, h \in {NoHint, "H1", "H2"} :
       Bind(s, o, a, c, h) => BindFrame(s, o, a, c, h)]_vars

\* The provider that the client's make(T, classHint) reaches for T itself is
\* the k-th activation: no other provider runs below it.
ReachedProvider(k) ==
  /\ stack[1].op = "make"
  /\ stack[k].op = "provider"
  /\ stack[k].t = stack[1].t
  /\ \A j \in 1..(k - 1) : stack[j].op \in {"make", "inner"}

\* C23: the provider that make(T, classHint) on scope S reaches for T is
\* called with the explicit classHint if one was supplied, otherwise with the
\* class hint registered for T in S, also when the provider is found in an
\* ancestor of S.
C23_ClassHint ==
  \A k \in 1..Len(stack) :
    ReachedProvider(k)
    => stack[k].h = (IF stack[1].h # NoHint THEN stack[1].h
                     ELSE hints[stack[1].s][stack[1].t])

\* t is registered in s with {pool: n}, n zero or negative.
NonPositive(s, t) ==
  bindOptions[s][t].kind = "pool" /\ bindOptions[s][t].n <= 0

\* C24: a token registered with a pool of capacity zero or less behaves like
\* a token without policy: every make since the registration invoked the
\* provider and returned the new object it built, and the instance cache of
\* the token is as the registration found it, empty if it was empty.
C24_NonPositivePool ==
  \A s \in Scopes, t \in Tokens :
    (NonPositive(s, t) /\ OwnProvider(s, t))
    => LET h == hist[s][t]
       IN /\ \A k \in 1..Len(h) :
               /\ h[k].k = "inst"
               /\ insts[h[k].id].by = providers[s][t]
               /\ \A j \in 1..(k - 1) : h[j] # h[k]
               /\ \A j \in 1..Len(pool[s][t]) : pool[s][t][j] # h[k]
          /\ Idle => inv[s][t] = Len(h)
          /\ clean[s][t] => pool[s][t] = <<>>
          /\ cur.kind = "make" => pool[s][t] = before[s][t]

\* C24's case: two calls answered under {pool: -1}, beside a cache that an
\* earlier {pool: 1} filled.
C24_Witness ==
  /\ bindOptions[1][TokA] = Pool(-1)
  /\ OwnProvider(1, TokA)
  /\ Len(hist[1][TokA]) = 2
  /\ pool[1][TokA] # <<>>
  /\ Idle

\* C25: in every reachable state, inside nested make calls and after a
\* token's policy was registered again with another capacity, a scope's cache
\* for a token holds no more instances than the capacity of the policy now
\* registered for the token in that scope.
C25_CacheBound ==
  \A s \in Scopes, t \in Tokens :
    bindOptions[s][t].kind # "none"
    => Len(pool[s][t]) <= PoolSize(bindOptions[s][t])

\* The tokens whose internal resolution on scope s has pushed them and has
\* not finished, outermost first.
InFlight(s) ==
  LET pushed(f) == f.op = "inner" /\ f.s = s /\ f.pc = "finally"
      active == SelectSeq(stack, pushed)
  IN [k \in 1..Len(active) |-> active[k].t]

\* C26: in every reachable state the resolution stack of each scope holds no
\* token twice and holds exactly the tokens that the unfinished internal
\* resolution steps on that scope pushed at their provider lookup, in that
\* order; and while a provider for T runs on behalf of scope S, T is on S's
\* stack.
C26_StackWellFormed ==
  /\ \A s \in Scopes :
       /\ makeStack[s] = InFlight(s)
       /\ \A i \in 1..Len(makeStack[s]) : \A j \in 1..(i - 1) :
            makeStack[s][i] # makeStack[s][j]
  /\ \A k \in 1..Len(stack) :
       stack[k].op = "provider"
       => \E i \in 1..Len(makeStack[stack[k].c]) :
            makeStack[stack[k].c][i] = stack[k].t

\* C26's case: a provider owned by an ancestor runs on behalf of a scope
\* whose stack holds two tokens.
C26_Witness ==
  \E k \in 1..Len(stack) :
    /\ stack[k].op = "provider"
    /\ providers[stack[k].c][stack[k].t] = NoProvider
    /\ Len(makeStack[stack[k].c]) = 2

====
